---- MODULE Spec2Model ----
(***************************************************************************)
(* Model of the verdict layer of sonnylabs (src/sonnylabs/helper.py) and   *)
(* of the client methods that delegate to it (src/sonnylabs/client.py).    *)
(*                                                                         *)
(* Conventions.                                                            *)
(*  - A score is an integer number of hundredths (0.65 is 65).             *)
(*  - An optional value (a dict key that may be missing) is a sequence of  *)
(*    length 0 (missing) or 1 (present).                                   *)
(*  - A Python dict is a sequence of <<key, value>> pairs with distinct    *)
(*    keys, in insertion order.                                            *)
(*  - The collaborator (client.analyze_text) is a script: its i-th call    *)
(*    behaves as script[i].  The calls made so far are a log.              *)
(***************************************************************************)
EXTENDS Integers, Sequences, FiniteSets, TLC

VARIABLES req, script, calls, ret

vars == <<req, script, calls, ret>>

(***************************************************************************)
(* Bounds of the model.                                                    *)
(***************************************************************************)
MaxFindings == 2
MaxMessages == 2
MaxChunks == 2

(***************************************************************************)
(* Python values.                                                          *)
(***************************************************************************)
Missing == <<>>

Some(v) == <<v>>

\* The Python value None where a string is expected.
PyNone == "<None>"

\* `not text` for a string or None.
Falsy(text) == text = "" \/ text = PyNone

HasKey(d, k) == \E i \in 1..Len(d) : d[i][1] = k

Lookup(d, k) == d[CHOOSE i \in 1..Len(d) : d[i][1] = k][2]

\* d.get(k, default)
DictGet(d, k, default) == IF HasKey(d, k) THEN Lookup(d, k) ELSE default

\* {**d, k: v}
DictSet(d, k, v) ==
    IF HasKey(d, k)
    THEN [i \in 1..Len(d) |-> IF d[i][1] = k THEN <<k, v>> ELSE d[i]]
    ELSE Append(d, <<k, v>>)

\* Values stored in a meta dict: strings and integers.
PyStr(s) == [t |-> "str", s |-> s, n |-> 0]

PyInt(n) == [t |-> "int", s |-> "", n |-> n]

\* meta or {}
MetaOrEmpty(meta) == IF meta.isNone THEN <<>> ELSE meta.d

RECURSIVE JoinLines(_)
\* "\n".join(parts)
JoinLines(parts) ==
    IF Len(parts) = 0 THEN ""
    ELSE IF Len(parts) = 1 THEN parts[1]
    ELSE parts[1] \o "\n" \o JoinLines(Tail(parts))

RECURSIVE ReprItems(_)
ReprItems(d) ==
    IF Len(d) = 0 THEN ""
    ELSE "'" \o d[1][1] \o "': '" \o d[1][2] \o "'"
         \o (IF Len(d) = 1 THEN "" ELSE ", " \o ReprItems(Tail(d)))

\* str(d) of a dict of strings.
StrDict(d) == "{" \o ReprItems(d) \o "}"

(***************************************************************************)
(* The collaborator: client.analyze_text.                                  *)
(* A response is what one call does: it raises, or it returns a dict with  *)
(* the optional keys "success", "tag" and "analysis".                      *)
(***************************************************************************)
Finding(type, name, result) == [type |-> type, name |-> name, result |-> result]

ScoreFinding(s) == Finding("score", Some("prompt_injection"), Some(s))

Response(raises, success, tag, analysis) ==
    [raises |-> raises, success |-> success, tag |-> tag, analysis |-> analysis]

\* The i-th call of analyze_text is answered by script[i]; the log keeps the
\* arguments of every call made.
analyze_text(text, scan_type, log) ==
    [result |-> script[Len(log) + 1],
     log |-> Append(log, [text |-> text, scan_type |-> scan_type])]

(***************************************************************************)
(* helper.py: the data classes.                                            *)
(***************************************************************************)
ScanVerdict(is_safe, score, scan_type, tag, meta, raw_analysis) ==
    [is_safe |-> is_safe, score |-> score, scan_type |-> scan_type,
     tag |-> tag, meta |-> meta, raw_analysis |-> raw_analysis]

RagScanResult(query, total_chunks, safe_chunks, flagged_chunks, is_safe, verdict_per_chunk) ==
    [query |-> query, total_chunks |-> total_chunks, safe_chunks |-> safe_chunks,
     flagged_chunks |-> flagged_chunks, is_safe |-> is_safe,
     verdict_per_chunk |-> verdict_per_chunk]

ToolCallScanResult(is_safe, tool_name, user_intent_safe, tool_args_safe, combined_score, user_message_verdict, tool_context_verdict, recommendation) ==
    [is_safe |-> is_safe, tool_name |-> tool_name, user_intent_safe |-> user_intent_safe,
     tool_args_safe |-> tool_args_safe, combined_score |-> combined_score,
     user_message_verdict |-> user_message_verdict,
     tool_context_verdict |-> tool_context_verdict, recommendation |-> recommendation]

(***************************************************************************)
(* helper.py: scan_text.                                                   *)
(***************************************************************************)
DefaultThreshold == 65

FailClosedScore == 100

\* (policy or {}).get("threshold", 0.65)
Threshold(policy) ==
    IF policy.threshold = Missing THEN DefaultThreshold ELSE policy.threshold[1]

\* item.get("type") == "score" and item.get("name") == "prompt_injection"
IsInjectionScore(item) == item.type = "score" /\ item.name = Some("prompt_injection")

\* Variant of FirstMatch that keeps the last matching item.
LastMatch(analysis) ==
    LET hits == {i \in 1..Len(analysis) : IsInjectionScore(analysis[i])}
    IN IF hits = {} THEN 0 ELSE CHOOSE i \in hits : \A j \in hits : j <= i

\* The generator of next(...): the index of the first matching item, 0 if none.
FirstMatch(analysis) ==
    LET hits == {i \in 1..Len(analysis) : IsInjectionScore(analysis[i])}
    IN IF hits = {} THEN 0 ELSE CHOOSE i \in hits : \A j \in hits : i <= j

\* Variant of IsSafe with an inclusive comparison.
IsSafeInclusive(score, threshold) == score <= threshold

\* score < threshold
IsSafe(score, threshold) == score < threshold

\* Variant of EmptyInputVerdict that fails closed.
EmptyInputVerdictClosed(scan_type, meta) ==
    ScanVerdict(FALSE, FailClosedScore, scan_type, "empty_input", MetaOrEmpty(meta), <<>>)

EmptyInputVerdict(scan_type, meta) ==
    ScanVerdict(TRUE, 0, scan_type, "empty_input", MetaOrEmpty(meta), <<>>)

\* Variant of FailedVerdict that fails open.
FailedVerdictOpen(result, scan_type, meta) ==
    ScanVerdict(TRUE, 0, scan_type,
                IF result.tag = Missing THEN "unknown" ELSE result.tag[1],
                MetaOrEmpty(meta), <<>>)

\* The verdict of a call the collaborator reports as failed.
FailedVerdict(result, scan_type, meta) ==
    ScanVerdict(FALSE, FailClosedScore, scan_type,
                IF result.tag = Missing THEN "unknown" ELSE result.tag[1],
                MetaOrEmpty(meta), <<>>)

\* Variant of ErrorVerdict with the tag of a failed call.
ErrorVerdictUnknown(scan_type, meta) ==
    ScanVerdict(FALSE, FailClosedScore, scan_type, "unknown", MetaOrEmpty(meta), <<>>)

\* The verdict of the except clause.
ErrorVerdict(scan_type, meta) ==
    ScanVerdict(FALSE, FailClosedScore, scan_type, "error", MetaOrEmpty(meta), <<>>)

\* Variant of VerdictOfResult that scores a success without the finding 1.0.
VerdictOfResultMissingClosed(result, scan_type, threshold, meta) ==
    IF result.success = Missing THEN ErrorVerdict(scan_type, meta)
    ELSE IF ~result.success[1] THEN FailedVerdict(result, scan_type, meta)
    ELSE LET analysis == IF result.analysis = Missing THEN <<>> ELSE result.analysis[1]
             i == FirstMatch(analysis)
         IN IF i # 0 /\ analysis[i].result = Missing THEN ErrorVerdict(scan_type, meta)
            ELSE LET score == IF i = 0 THEN FailClosedScore ELSE analysis[i].result[1]
                 IN ScanVerdict(IsSafe(score, threshold), score, scan_type,
                                IF result.tag = Missing THEN "" ELSE result.tag[1],
                                MetaOrEmpty(meta), analysis)

\* The body of the try block once analyze_text has returned `result`; a
\* KeyError (no "success" key, no "result" in the matching item) ends in the
\* except clause.
VerdictOfResult(result, scan_type, threshold, meta) ==
    IF result.success = Missing THEN ErrorVerdict(scan_type, meta)
    ELSE IF ~result.success[1] THEN FailedVerdict(result, scan_type, meta)
    ELSE LET analysis == IF result.analysis = Missing THEN <<>> ELSE result.analysis[1]
             i == FirstMatch(analysis)
         IN IF i # 0 /\ analysis[i].result = Missing THEN ErrorVerdict(scan_type, meta)
            ELSE LET score == IF i = 0 THEN 0 ELSE analysis[i].result[1]
                 IN ScanVerdict(IsSafe(score, threshold), score, scan_type,
                                IF result.tag = Missing THEN "" ELSE result.tag[1],
                                MetaOrEmpty(meta), analysis)

\* scan_text(text, client, scan_type, policy, meta): the verdict and the
\* collaborator's log after it.
scan_text(text, scan_type, policy, meta, log) ==
    IF Falsy(text)
    THEN [verdict |-> EmptyInputVerdict(scan_type, meta), log |-> log]
    ELSE LET threshold == Threshold(policy)
             r == analyze_text(text, scan_type, log)
         IN IF r.result.raises
            THEN [verdict |-> ErrorVerdict(scan_type, meta), log |-> r.log]
            ELSE [verdict |-> VerdictOfResult(r.result, scan_type, threshold, meta),
                  log |-> r.log]

(***************************************************************************)
(* helper.py: scan_messages.                                               *)
(* A message is a dict with optional "role" and "content", or some other   *)
(* object (isdict = FALSE), on which msg.get raises AttributeError.        *)
(***************************************************************************)
Message(isdict, role, content) == [isdict |-> isdict, role |-> role, content |-> content]

\* Variant of MessageLine that leaves a missing role empty.
MessageLineNoDefault(msg) ==
    "[" \o (IF msg.role = Missing THEN "" ELSE msg.role[1]) \o "]: "
        \o (IF msg.content = Missing THEN "" ELSE msg.content[1])

\* f"[{msg.get('role', 'unknown')}]: {msg.get('content', '')}"
MessageLine(msg) ==
    "[" \o (IF msg.role = Missing THEN "unknown" ELSE msg.role[1]) \o "]: "
        \o (IF msg.content = Missing THEN "" ELSE msg.content[1])

\* "\n".join([... for msg in messages])
texted_content(messages) == JoinLines([i \in 1..Len(messages) |-> MessageLine(messages[i])])

EmptyMessagesVerdict(scan_type, meta) ==
    ScanVerdict(TRUE, 0, scan_type, "empty_messages", MetaOrEmpty(meta), <<>>)

\* scan_messages(messages, client, scan_type, policy, meta).  The transcript
\* is built before the try block, so an element without .get raises to the
\* caller.
scan_messages(messages, scan_type, policy, meta, log) ==
    IF Len(messages) = 0
    THEN [raised |-> FALSE, verdict |-> EmptyMessagesVerdict(scan_type, meta), log |-> log]
    ELSE LET threshold == Threshold(policy)
         IN IF \E i \in 1..Len(messages) : ~messages[i].isdict
            THEN [raised |-> TRUE, verdict |-> ErrorVerdict(scan_type, meta), log |-> log]
            ELSE LET r == analyze_text(texted_content(messages), scan_type, log)
                     result == r.result
                 IN IF result.raises \/ result.success = Missing
                    THEN [raised |-> FALSE, verdict |-> ErrorVerdict(scan_type, meta),
                          log |-> r.log]
                    ELSE IF ~result.success[1]
                    THEN [raised |-> FALSE, verdict |-> FailedVerdict(result, scan_type, meta),
                          log |-> r.log]
                    ELSE LET analysis == IF result.analysis = Missing THEN <<>>
                                         ELSE result.analysis[1]
                             i == FirstMatch(analysis)
                         IN IF i # 0 /\ analysis[i].result = Missing
                            THEN [raised |-> FALSE, verdict |-> ErrorVerdict(scan_type, meta),
                                  log |-> r.log]
                            ELSE LET score == IF i = 0 THEN 0 ELSE analysis[i].result[1]
                                 IN [raised |-> FALSE,
                                     verdict |-> ScanVerdict(IsSafe(score, threshold), score,
                                         scan_type,
                                         IF result.tag = Missing THEN "" ELSE result.tag[1],
                                         MetaOrEmpty(meta), analysis),
                                     log |-> r.log]

(***************************************************************************)
(* helper.py: scan_rag_chunks.                                             *)
(* A chunk is a string (kind "str"), a dict of strings (kind "dict") or    *)
(* some other object (kind "other"), on which chunk.get raises.            *)
(***************************************************************************)
Chunk(kind, s, d) == [kind |-> kind, s |-> s, d |-> d]

\* Variant of DictChunkText that takes a field as soon as the record has it.
DictChunkTextAnyValue(d) ==
    IF HasKey(d, "text") THEN Lookup(d, "text")
    ELSE IF HasKey(d, "content") THEN Lookup(d, "content")
    ELSE StrDict(d)

\* chunk.get("text") or chunk.get("content") or str(chunk)
DictChunkText(d) ==
    LET t == DictGet(d, "text", PyNone)
        c == DictGet(d, "content", PyNone)
    IN IF ~Falsy(t) THEN t ELSE IF ~Falsy(c) THEN c ELSE StrDict(d)

chunk_text(chunk) == IF chunk.kind = "str" THEN chunk.s ELSE DictChunkText(chunk.d)

Min(a, b) == IF a <= b THEN a ELSE b

Max(a, b) == IF a >= b THEN a ELSE b

\* Variant of Truncate that keeps one chunk more than the limit.
TruncateOneMore(chunks, limit) ==
    IF limit >= 0 THEN SubSeq(chunks, 1, Min(limit + 1, Len(chunks)))
    ELSE SubSeq(chunks, 1, Max(Len(chunks) + limit, 0))

\* chunks[:limit]
Truncate(chunks, limit) ==
    IF limit >= 0 THEN SubSeq(chunks, 1, Min(limit, Len(chunks)))
    ELSE SubSeq(chunks, 1, Max(Len(chunks) + limit, 0))

\* policy.get("max_chunks_to_scan", len(chunks))
Limit(policy, chunks) ==
    IF policy.max_chunks_to_scan = Missing THEN Len(chunks)
    ELSE policy.max_chunks_to_scan[1]

ChunkData(text, index, score, original) ==
    [text |-> text, index |-> index, score |-> score, original |-> original]

\* Variant of FlaggedData that gives another reason.
FlaggedDataUnsafe(chunk_data) ==
    [text |-> chunk_data.text, index |-> chunk_data.index, score |-> chunk_data.score,
     original |-> chunk_data.original, reason |-> "unsafe"]

\* {**chunk_data, "reason": "flagged"}
FlaggedData(chunk_data) ==
    [text |-> chunk_data.text, index |-> chunk_data.index, score |-> chunk_data.score,
     original |-> chunk_data.original, reason |-> "flagged"]

\* Variant of RagStep that stops scanning after the first flagged chunk.
RagStepStopAtFlagged(chunk, i, threshold, meta, acc) ==
    IF acc.raised \/ Len(acc.flagged_chunks) > 0 THEN acc
    ELSE IF chunk.kind = "other" THEN [acc EXCEPT !.raised = TRUE]
    ELSE LET text == chunk_text(chunk)
             r == scan_text(text, "input", [threshold |-> Some(threshold)],
                            [isNone |-> FALSE, d |-> DictSet(meta, "chunk_index", PyInt(i))],
                            acc.log)
             chunk_data == ChunkData(text, i, r.verdict.score, chunk)
         IN [raised |-> FALSE,
             safe_chunks |-> IF r.verdict.is_safe THEN Append(acc.safe_chunks, chunk_data)
                             ELSE acc.safe_chunks,
             flagged_chunks |-> IF r.verdict.is_safe THEN acc.flagged_chunks
                                ELSE Append(acc.flagged_chunks, FlaggedData(chunk_data)),
             verdicts |-> Append(acc.verdicts, r.verdict),
             log |-> r.log]

\* One iteration of the for loop, on the chunk of index i.
RagStep(chunk, i, threshold, meta, acc) ==
    IF acc.raised THEN acc
    ELSE IF chunk.kind = "other" THEN [acc EXCEPT !.raised = TRUE]
    ELSE LET text == chunk_text(chunk)
             r == scan_text(text, "input", [threshold |-> Some(threshold)],
                            [isNone |-> FALSE, d |-> DictSet(meta, "chunk_index", PyInt(i))],
                            acc.log)
             chunk_data == ChunkData(text, i, r.verdict.score, chunk)
         IN [raised |-> FALSE,
             safe_chunks |-> IF r.verdict.is_safe THEN Append(acc.safe_chunks, chunk_data)
                             ELSE acc.safe_chunks,
             flagged_chunks |-> IF r.verdict.is_safe THEN acc.flagged_chunks
                                ELSE Append(acc.flagged_chunks, FlaggedData(chunk_data)),
             verdicts |-> Append(acc.verdicts, r.verdict),
             log |-> r.log]

RECURSIVE RagLoop(_, _, _, _, _)
\* for i, chunk in enumerate(chunks[:limit]): the state after the chunks of
\* index i and above.
RagLoop(retained, i, threshold, meta, acc) ==
    IF i >= Len(retained) THEN acc
    ELSE RagLoop(retained, i + 1, threshold, meta,
                 RagStep(retained[i + 1], i, threshold, meta, acc))

\* Variant of RagIsSafe that ignores the query's verdict.
RagIsSafeChunksOnly(query_verdict, flagged_chunks) == Len(flagged_chunks) = 0

\* Variant of RagIsSafe that ignores the flagged chunks.
RagIsSafeQueryOnly(query_verdict, flagged_chunks) == query_verdict.is_safe

\* query_verdict.is_safe and len(flagged_chunks) == 0
RagIsSafe(query_verdict, flagged_chunks) ==
    query_verdict.is_safe /\ Len(flagged_chunks) = 0

\* Variant of AllVerdicts that leaves the query's verdict out.
AllVerdictsChunksOnly(query_verdict, verdicts) == verdicts

\* [query_verdict] + verdicts
AllVerdicts(query_verdict, verdicts) == <<query_verdict>> \o verdicts

\* Variant of EmptyRagResult that reports the empty collection as unsafe.
EmptyRagResultUnsafe(query) == RagScanResult(query, 0, <<>>, <<>>, FALSE, <<>>)

\* `if not chunks: return RAGScanResult(query=query, total_chunks=0,
\* safe_chunks=[], flagged_chunks=[], is_safe=True)`
EmptyRagResult(query) == RagScanResult(query, 0, <<>>, <<>>, TRUE, <<>>)

\* Variant of scan_rag_chunks that scans the query before the chunks.
scan_rag_chunks_query_first(query, chunks, policy, meta, log) ==
    IF Len(chunks) = 0
    THEN [raised |-> FALSE, result |-> EmptyRagResult(query), log |-> log]
    ELSE LET threshold == Threshold(policy)
             limit == Limit(policy, chunks)
             q == scan_text(query, "input", [threshold |-> Some(threshold)],
                            [isNone |-> TRUE, d |-> <<>>], log)
             loop == RagLoop(Truncate(chunks, limit), 0, threshold, MetaOrEmpty(meta),
                             [raised |-> FALSE, safe_chunks |-> <<>>, flagged_chunks |-> <<>>,
                              verdicts |-> <<>>, log |-> q.log])
         IN IF loop.raised
            THEN [raised |-> TRUE, result |-> RagScanResult(query, 0, <<>>, <<>>, FALSE, <<>>),
                  log |-> loop.log]
            ELSE [raised |-> FALSE,
                  result |-> RagScanResult(query, Len(chunks), loop.safe_chunks,
                                loop.flagged_chunks,
                                RagIsSafe(q.verdict, loop.flagged_chunks),
                                AllVerdicts(q.verdict, loop.verdicts)),
                  log |-> loop.log]

\* scan_rag_chunks(query, chunks, client, policy, meta)
scan_rag_chunks(query, chunks, policy, meta, log) ==
    IF Len(chunks) = 0
    THEN [raised |-> FALSE, result |-> EmptyRagResult(query), log |-> log]
    ELSE LET threshold == Threshold(policy)
             limit == Limit(policy, chunks)
             loop == RagLoop(Truncate(chunks, limit), 0, threshold, MetaOrEmpty(meta),
                             [raised |-> FALSE, safe_chunks |-> <<>>, flagged_chunks |-> <<>>,
                              verdicts |-> <<>>, log |-> log])
         IN IF loop.raised
            THEN [raised |-> TRUE, result |-> RagScanResult(query, 0, <<>>, <<>>, FALSE, <<>>),
                  log |-> loop.log]
            ELSE LET q == scan_text(query, "input", [threshold |-> Some(threshold)],
                                    [isNone |-> TRUE, d |-> <<>>], loop.log)
                 IN [raised |-> FALSE,
                     result |-> RagScanResult(query, Len(chunks), loop.safe_chunks,
                                   loop.flagged_chunks,
                                   RagIsSafe(q.verdict, loop.flagged_chunks),
                                   AllVerdicts(q.verdict, loop.verdicts)),
                     log |-> q.log]

(***************************************************************************)
(* helper.py: scan_tool_call.                                              *)
(* A tool schema is None (kind "none"), a string or a dict of strings.     *)
(***************************************************************************)
Schema(kind, s, d) == [kind |-> kind, s |-> s, d |-> d]

\* `if tool_schema:`
SchemaTruthy(schema) ==
    \/ schema.kind = "str" /\ schema.s # ""
    \/ schema.kind = "dict" /\ Len(schema.d) > 0

\* Variant of SchemaLine that labels every schema "Schema".
SchemaLineUnlabelled(schema) ==
    "Schema: " \o (IF schema.kind = "str" THEN schema.s ELSE StrDict(schema.d))

\* f"{'Description' if isinstance(tool_schema, str) else 'Schema'}: {tool_schema}"
SchemaLine(schema) ==
    IF schema.kind = "str" THEN "Description: " \o schema.s
    ELSE "Schema: " \o StrDict(schema.d)

tool_context(tool_name, tool_args, schema) ==
    JoinLines(<<"Tool: " \o tool_name>>
              \o (IF SchemaTruthy(schema) THEN <<SchemaLine(schema)>> ELSE <<>>)
              \o <<"Arguments: " \o StrDict(tool_args)>>)

\* The pairs of scores (in hundredths) whose mean, a tie in decimal, is a
\* binary float just below the tie, so that round(mean, 1) goes down.
RoundsDown(s1, s2) ==
    <<Min(s1, s2), Max(s1, s2)>> \in
        {<<0, 30>>, <<0, 50>>, <<0, 70>>, <<10, 40>>, <<10, 60>>, <<20, 30>>, <<20, 50>>,
         <<20, 70>>, <<30, 40>>, <<30, 60>>, <<60, 70>>, <<70, 100>>, <<90, 100>>}

\* Variant of combined_score that drops the second decimal instead of rounding.
combined_score_truncated(s1, s2) == ((s1 + s2) \div 20) * 10

\* round((s1 + s2) / 2.0, 1), in hundredths, for scores that are multiples
\* of 0.05.
combined_score(s1, s2) ==
    LET sum == s1 + s2
        tenths == IF sum % 20 = 10
                  THEN (IF RoundsDown(s1, s2) THEN (sum - 10) \div 20 ELSE (sum + 10) \div 20)
                  ELSE (sum + 10) \div 20
    IN tenths * 10

BlockAt == 85

ReviewAt == 50

\* Variant of recommendation that never lets an unsafe call proceed.
recommendation_review_floor(is_safe, combined) ==
    IF is_safe THEN "proceed"
    ELSE IF combined >= BlockAt THEN "block"
    ELSE "review"

\* Variant of recommendation that asks for review only above 0.50.
recommendation_above_half(is_safe, combined) ==
    IF is_safe THEN "proceed"
    ELSE IF combined >= BlockAt THEN "block"
    ELSE IF combined > ReviewAt THEN "review"
    ELSE "proceed"

\* Variant of recommendation that sends a safe call to review.
recommendation_safe_review(is_safe, combined) ==
    IF is_safe THEN "review"
    ELSE IF combined >= BlockAt THEN "block"
    ELSE IF combined >= ReviewAt THEN "review"
    ELSE "proceed"

\* Variant of recommendation that grades the score alone.
recommendation_by_score(is_safe, combined) ==
    IF combined >= BlockAt THEN "block"
    ELSE IF combined >= ReviewAt THEN "review"
    ELSE "proceed"

\* "proceed" if is_safe else ("block" if combined_score >= 0.85 else
\* "review" if combined_score >= 0.50 else "proceed")
recommendation(is_safe, combined) ==
    IF is_safe THEN "proceed"
    ELSE IF combined >= BlockAt THEN "block"
    ELSE IF combined >= ReviewAt THEN "review"
    ELSE "proceed"

\* Variant of ToolIsSafe that is satisfied by one safe probe.
ToolIsSafeEither(user_verdict, tool_context_verdict) ==
    user_verdict.is_safe \/ tool_context_verdict.is_safe

\* is_safe = user_verdict.is_safe and tool_context_verdict.is_safe
ToolIsSafe(user_verdict, tool_context_verdict) ==
    user_verdict.is_safe /\ tool_context_verdict.is_safe

\* Variant of scan_tool_call that probes the tool context before the user
\* message.
scan_tool_call_context_first(user_message, tool_name, tool_args, schema, policy, meta, log) ==
    LET threshold == Threshold(policy)
        context == tool_context(tool_name, tool_args, schema)
        t == scan_text(context, "input", [threshold |-> Some(threshold)],
                       [isNone |-> FALSE,
                        d |-> DictSet(DictSet(MetaOrEmpty(meta), "tool", PyStr(tool_name)),
                                      "component", PyStr("tool_context"))],
                       log)
        u == scan_text(user_message, "input", [threshold |-> Some(threshold)],
                       [isNone |-> FALSE,
                        d |-> DictSet(MetaOrEmpty(meta), "component",
                                      PyStr("tool_call_user_intent"))],
                       t.log)
        combined == combined_score(u.verdict.score, t.verdict.score)
        is_safe == ToolIsSafe(u.verdict, t.verdict)
    IN [result |-> ToolCallScanResult(is_safe, tool_name, u.verdict.is_safe,
                       t.verdict.is_safe, combined, u.verdict, t.verdict,
                       recommendation(is_safe, combined)),
        log |-> u.log]

\* scan_tool_call(user_message, tool_name, tool_args, client, tool_schema,
\* policy, meta).  scan_text raises nothing, so the except clause is not
\* entered for a meta that is a dict or None.
scan_tool_call(user_message, tool_name, tool_args, schema, policy, meta, log) ==
    LET threshold == Threshold(policy)
        context == tool_context(tool_name, tool_args, schema)
        u == scan_text(user_message, "input", [threshold |-> Some(threshold)],
                       [isNone |-> FALSE,
                        d |-> DictSet(MetaOrEmpty(meta), "component",
                                      PyStr("tool_call_user_intent"))],
                       log)
        t == scan_text(context, "input", [threshold |-> Some(threshold)],
                       [isNone |-> FALSE,
                        d |-> DictSet(DictSet(MetaOrEmpty(meta), "tool", PyStr(tool_name)),
                                      "component", PyStr("tool_context"))],
                       u.log)
        combined == combined_score(u.verdict.score, t.verdict.score)
        is_safe == ToolIsSafe(u.verdict, t.verdict)
    IN [result |-> ToolCallScanResult(is_safe, tool_name, u.verdict.is_safe,
                       t.verdict.is_safe, combined, u.verdict, t.verdict,
                       recommendation(is_safe, combined)),
        log |-> t.log]

(***************************************************************************)
(* client.py: get_prompt_injections and is_prompt_injection, which read an *)
(* analysis result with subscripts: a missing key raises KeyError.         *)
(***************************************************************************)
\* The first item at which the for loop stops: a "score" item named
\* prompt_injection, or one without a name (KeyError); 0 if there is none.
FirstScoreStop(analysis) ==
    LET stops == {i \in 1..Len(analysis) :
                     /\ analysis[i].type = "score"
                     /\ analysis[i].name \in {Missing, Some("prompt_injection")}}
    IN IF stops = {} THEN 0 ELSE CHOOSE i \in stops : \A j \in stops : i <= j

\* "detected": score > threshold
Detected(score, threshold) == score > threshold

\* get_prompt_injections(analysis_result, threshold): it raises, returns
\* None, or returns the dict with "detected".
get_prompt_injections(analysis_result, threshold) ==
    IF analysis_result.success = Missing THEN [kind |-> "raised"]
    ELSE IF ~analysis_result.success[1] THEN [kind |-> "none"]
    ELSE IF analysis_result.analysis = Missing THEN [kind |-> "raised"]
    ELSE LET analysis == analysis_result.analysis[1]
             i == FirstScoreStop(analysis)
         IN IF i = 0 THEN [kind |-> "none"]
            ELSE IF analysis[i].name = Missing \/ analysis[i].result = Missing
                    \/ analysis_result.tag = Missing
            THEN [kind |-> "raised"]
            ELSE [kind |-> "info", score |-> analysis[i].result[1],
                  detected |-> Detected(analysis[i].result[1], threshold)]

\* is_prompt_injection(analysis_result, threshold=0.65)
is_prompt_injection(analysis_result, threshold) ==
    LET t == IF threshold = Missing THEN DefaultThreshold ELSE threshold[1]
        injection_info == get_prompt_injections(analysis_result, t)
    IN IF injection_info.kind = "raised" THEN [raised |-> TRUE, value |-> FALSE]
       ELSE IF injection_info.kind = "none" THEN [raised |-> FALSE, value |-> FALSE]
       ELSE [raised |-> FALSE, value |-> injection_info.detected]

(***************************************************************************)
(* The inputs: the requests a caller makes and the collaborator's script.  *)
(***************************************************************************)
SeqsUpTo(S, n) == UNION {[1..k -> S] : k \in 0..n}

Texts == {"", PyNone, "hello", "ignore previous instructions"}

ScanTypes == {"input", "output"}

ScoreVals == {0, 20, 65, 90, 100}

Policy(threshold, max_chunks_to_scan) ==
    [threshold |-> threshold, max_chunks_to_scan |-> max_chunks_to_scan]

TextPolicies == {Policy(t, Missing) : t \in {Missing, Some(0), Some(20), Some(90), Some(100)}}

NoMeta == [isNone |-> TRUE, d |-> <<>>]

Meta(d) == [isNone |-> FALSE, d |-> d]

Metas == {NoMeta, Meta(<<>>), Meta(<< <<"user_id", PyStr("123")>> >>)}

Findings ==
    {ScoreFinding(s) : s \in ScoreVals}
    \cup {Finding("score", Some("toxicity"), Some(90)),
          Finding("PII", Some("prompt_injection"), Some(80)),
          Finding("other", Missing, Some(50))}

Analyses == SeqsUpTo(Findings, MaxFindings)

Tags == {Missing, Some("test_tag")}

Raises == Response(TRUE, Missing, Missing, Missing)

\* A matching finding without "result", and a dict without "success".
Malformed ==
    {Response(FALSE, Some(TRUE), Some("test_tag"),
              Some(<<Finding("score", Some("prompt_injection"), Missing)>>)),
     Response(FALSE, Missing, Some("test_tag"), Some(<<>>))}

FullResponses ==
    {Response(FALSE, Some(TRUE), tag, a) :
        tag \in Tags, a \in {Missing} \cup {Some(x) : x \in Analyses}}
    \cup {Response(FALSE, Some(FALSE), tag, a) :
        tag \in Tags, a \in {Missing, Some(<<>>), Some(<<ScoreFinding(20)>>)}}
    \cup Malformed
    \cup {Raises}

Ok(s) == Response(FALSE, Some(TRUE), Some("test_tag"), Some(<<ScoreFinding(s)>>))

Failed == Response(FALSE, Some(FALSE), Some("test_tag"), Some(<<>>))

BasicResponses ==
    {Ok(20), Ok(90), Failed, Raises,
     Response(FALSE, Some(FALSE), Missing, Missing),
     Response(FALSE, Some(TRUE), Missing, Some(<<Finding("other", Missing, Some(50))>>))}

RagResponses == {Ok(20), Ok(90), Failed, Raises}

ToolScores == {20, 40, 60, 65, 70, 80, 90}

ToolResponses ==
    {Ok(s) : s \in ToolScores}
    \cup {Failed, Raises,
          Response(FALSE, Some(TRUE), Missing, Some(<<Finding("other", Missing, Some(50))>>))}

ToolMetas ==
    {NoMeta,
     Meta(<< <<"request_id", PyStr("123")>> >>),
     Meta(<< <<"component", PyStr("tool_execution")>>, <<"tool", PyStr("agent")>> >>)}

MessageVals ==
    {Message(TRUE, Some("user"), Some("hi")),
     Message(TRUE, Some("system"), Some("be brief")),
     Message(TRUE, Some("user"), Missing),
     Message(TRUE, Missing, Some("test")),
     Message(FALSE, Missing, Missing)}

ChunkVals ==
    {Chunk("str", "doc", <<>>),
     Chunk("str", "", <<>>),
     Chunk("dict", "", << <<"text", "chunk text">> >>),
     Chunk("dict", "", << <<"text", "">>, <<"content", "body">> >>),
     Chunk("dict", "", << <<"other_field", "value">> >>),
     Chunk("other", "", <<>>)}

LimitVals == {Missing, Some(1), Some(2)}

RagPolicies == {Policy(Some(90), k) : k \in LimitVals}

Queries == {"", "what?"}

SchemaVals ==
    {Schema("none", "", <<>>),
     Schema("str", "Search the web", <<>>),
     Schema("str", "", <<>>),
     Schema("dict", "", <<>>),
     Schema("dict", "", << <<"type", "object">> >>)}

ArgVals == {<<>>, << <<"q", "x">> >>}

TextRequest(t, st, p, m) ==
    [op |-> "scan_text", text |-> t, scan_type |-> st, policy |-> p, meta |-> m]

MessagesRequest(ms, st, p, m) ==
    [op |-> "scan_messages", messages |-> ms, scan_type |-> st, policy |-> p, meta |-> m]

RagRequest(q, cs, p, m) ==
    [op |-> "scan_rag_chunks", query |-> q, chunks |-> cs, policy |-> p, meta |-> m]

ToolRequest(um, name, a, sc, p, m) ==
    [op |-> "scan_tool_call", user_message |-> um, tool_name |-> name,
     tool_args |-> a, tool_schema |-> sc, policy |-> p, meta |-> m]

InjectionRequest(result, t) ==
    [op |-> "is_prompt_injection", analysis_result |-> result, threshold |-> t]

\* The scripts a request is run against: one response for every call the
\* operation can make.
ScriptsFor(r) ==
    IF r.op = "scan_text" THEN [1..1 -> FullResponses]
    ELSE IF r.op = "scan_messages" THEN [1..1 -> BasicResponses]
    ELSE IF r.op = "scan_rag_chunks" THEN [1..(Len(r.chunks) + 1) -> RagResponses]
    ELSE [1..2 -> ToolResponses]

Pending == [kind |-> "pending"]

Raised == [kind |-> "raised"]

(***************************************************************************)
(* The state machine: a request is chosen, then served by the client       *)
(* method that delegates to the helper.                                    *)
(***************************************************************************)
InitText ==
    /\ \E t \in Texts, st \in ScanTypes, p \in TextPolicies, m \in Metas :
          req = TextRequest(t, st, p, m)
    /\ script \in ScriptsFor(req)
    /\ calls = <<>>
    /\ ret = Pending

InitMessages ==
    /\ \E ms \in SeqsUpTo(MessageVals, MaxMessages), st \in ScanTypes,
          p \in TextPolicies, m \in Metas :
          req = MessagesRequest(ms, st, p, m)
    /\ script \in ScriptsFor(req)
    /\ calls = <<>>
    /\ ret = Pending

InitRag ==
    /\ \E q \in Queries, cs \in SeqsUpTo(ChunkVals, MaxChunks), p \in RagPolicies,
          m \in {NoMeta, Meta(<< <<"source", PyStr("db")>> >>)} :
          req = RagRequest(q, cs, p, m)
    /\ script \in ScriptsFor(req)
    /\ calls = <<>>
    /\ ret = Pending

InitTool ==
    /\ \E um \in {"", "delete my files"}, a \in ArgVals, sc \in SchemaVals,
          p \in {Policy(Missing, Missing), Policy(Some(20), Missing),
                 Policy(Some(100), Missing)},
          m \in ToolMetas :
          req = ToolRequest(um, "search", a, sc, p, m)
    /\ script \in ScriptsFor(req)
    /\ calls = <<>>
    /\ ret = Pending

\* is_prompt_injection is given a result the collaborator has returned.
InitInjection ==
    /\ \E a \in FullResponses \ {Raises}, t \in {Missing, Some(0), Some(20), Some(90)} :
          req = InjectionRequest(a, t)
    /\ script = <<req.analysis_result>>
    /\ calls = <<>>
    /\ ret = Pending

Init == InitText \/ InitMessages \/ InitRag \/ InitTool \/ InitInjection

CallScanText ==
    /\ req.op = "scan_text"
    /\ ret = Pending
    /\ LET r == scan_text(req.text, req.scan_type, req.policy, req.meta, calls)
       IN /\ ret' = [kind |-> "verdict", verdict |-> r.verdict]
          /\ calls' = r.log
    /\ UNCHANGED <<req, script>>

CallScanMessages ==
    /\ req.op = "scan_messages"
    /\ ret = Pending
    /\ LET r == scan_messages(req.messages, req.scan_type, req.policy, req.meta, calls)
       IN /\ ret' = IF r.raised THEN Raised ELSE [kind |-> "verdict", verdict |-> r.verdict]
          /\ calls' = r.log
    /\ UNCHANGED <<req, script>>

CallScanRagChunks ==
    /\ req.op = "scan_rag_chunks"
    /\ ret = Pending
    /\ LET r == scan_rag_chunks(req.query, req.chunks, req.policy, req.meta, calls)
       IN /\ ret' = IF r.raised THEN Raised ELSE [kind |-> "rag", result |-> r.result]
          /\ calls' = r.log
    /\ UNCHANGED <<req, script>>

CallScanToolCall ==
    /\ req.op = "scan_tool_call"
    /\ ret = Pending
    /\ LET r == scan_tool_call(req.user_message, req.tool_name, req.tool_args,
                               req.tool_schema, req.policy, req.meta, calls)
       IN /\ ret' = [kind |-> "tool", result |-> r.result]
          /\ calls' = r.log
    /\ UNCHANGED <<req, script>>

CallIsPromptInjection ==
    /\ req.op = "is_prompt_injection"
    /\ ret = Pending
    /\ LET r == is_prompt_injection(req.analysis_result, req.threshold)
       IN ret' = IF r.raised THEN Raised ELSE [kind |-> "bool", value |-> r.value]
    /\ UNCHANGED <<req, script, calls>>

Next ==
    \/ CallScanText
    \/ CallScanMessages
    \/ CallScanRagChunks
    \/ CallScanToolCall
    \/ CallIsPromptInjection

Spec == Init /\ [][Next]_vars

\* scan_text and scan_messages alone.
NextVerdict == CallScanText \/ CallScanMessages

SpecVerdict == (InitText \/ InitMessages) /\ [][NextVerdict]_vars

\* scan_rag_chunks alone.
NextRag == CallScanRagChunks

SpecRag == InitRag /\ [][NextRag]_vars

\* scan_tool_call alone.
NextTool == CallScanToolCall

SpecTool == InitTool /\ [][NextTool]_vars

\* is_prompt_injection alone.
NextInjection == CallIsPromptInjection

SpecInjection == InitInjection /\ [][NextInjection]_vars

(***************************************************************************)
(* Properties.                                                             *)
(***************************************************************************)
\* The operation has returned a verdict.
ReturnedVerdict(op) == req.op = op /\ ret.kind = "verdict"

\* scan_text made its call and the collaborator answered with a dict.
TextAnswered ==
    /\ ReturnedVerdict("scan_text")
    /\ ~Falsy(req.text)
    /\ ~script[1].raises

\* The threshold the caller asked for, 0.65 when the policy gives none.
AskedThreshold == IF req.policy.threshold = Missing THEN 65 ELSE req.policy.threshold[1]

\* The findings of the first response, [] when it carries none.
AnsweredFindings == IF script[1].analysis = Missing THEN <<>> ELSE script[1].analysis[1]

\* Item i of the list a is a score finding named prompt_injection.
IsHit(a, i) == a[i].type = "score" /\ a[i].name = <<"prompt_injection">>

\* C1: when the collaborator reports failure for a non-empty text, scan_text
\* returns is_safe=False and score=1.0, the collaborator's tag ("unknown" when
\* the response has none) and an empty raw_analysis, whatever the text, the
\* threshold and the findings of the failed response.
C1_FailureFailsClosed ==
    (TextAnswered /\ script[1].success = <<FALSE>>) =>
        /\ ret.verdict.is_safe = FALSE
        /\ ret.verdict.score = 100
        /\ ret.verdict.tag = (IF script[1].tag = <<>> THEN "unknown" ELSE script[1].tag[1])
        /\ ret.verdict.raw_analysis = <<>>

C1_Witness ==
    /\ TextAnswered
    /\ script[1].success = <<FALSE>>
    /\ script[1].tag = <<>>
    /\ script[1].analysis = <<(<<ScoreFinding(20)>>)>>
    /\ req.policy.threshold = <<90>>
    /\ ret.verdict.tag = "unknown"
    /\ ret.verdict.score = 100

\* C2: when the collaborator's analyze call raises, scan_text and
\* scan_messages do not raise: each returns is_safe=False, score=1.0,
\* tag="error" and an empty raw_analysis, with the caller's scan_type and meta.
C2_RaiseFailsClosed ==
    (/\ req.op \in {"scan_text", "scan_messages"}
     /\ ret # Pending
     /\ Len(calls) = 1
     /\ script[1].raises) =>
        /\ ret.kind = "verdict"
        /\ ret.verdict.is_safe = FALSE
        /\ ret.verdict.score = 100
        /\ ret.verdict.tag = "error"
        /\ ret.verdict.raw_analysis = <<>>
        /\ ret.verdict.scan_type = req.scan_type
        /\ ret.verdict.meta = (IF req.meta.isNone THEN <<>> ELSE req.meta.d)

C2_Witness ==
    /\ ReturnedVerdict("scan_messages")
    /\ Len(req.messages) = 2
    /\ Len(calls) = 1
    /\ script[1].raises
    /\ req.scan_type = "output"
    /\ Len(req.meta.d) = 1
    /\ ret.verdict.tag = "error"
    /\ ret.verdict.meta = req.meta.d

\* C3: when the call succeeds and yields a prompt_injection score s, scan_text
\* with threshold t (0.65 when the policy gives none) returns score = s and
\* is_safe = (s < t); s = t yields is_safe=False.
C3_SafeIffBelowThreshold ==
    (/\ TextAnswered
     /\ script[1].success = <<TRUE>>
     /\ \E i \in 1..Len(AnsweredFindings) :
           /\ IsHit(AnsweredFindings, i)
           /\ \A j \in 1..(i - 1) : ~IsHit(AnsweredFindings, j)
           /\ AnsweredFindings[i].result # <<>>) =>
        LET i == CHOOSE i \in 1..Len(AnsweredFindings) :
                    /\ IsHit(AnsweredFindings, i)
                    /\ \A j \in 1..(i - 1) : ~IsHit(AnsweredFindings, j)
            s == AnsweredFindings[i].result[1]
        IN /\ ret.verdict.score = s
           /\ ret.verdict.is_safe = (s < AskedThreshold)

C3_Witness ==
    /\ TextAnswered
    /\ script[1].success = <<TRUE>>
    /\ AnsweredFindings = <<ScoreFinding(65)>>
    /\ req.policy.threshold = <<>>
    /\ ret.verdict.score = 65
    /\ ret.verdict.is_safe = FALSE

\* C4: scan_text on empty (falsy) text and scan_messages on an empty message
\* list return is_safe=True, score=0.0 and the tag "empty_input" (respectively
\* "empty_messages") and make no collaborator call, whatever the threshold,
\* scan_type and meta.
C4_EmptyInputIsSafe ==
    /\ (req.op = "scan_text" /\ ret # Pending /\ (req.text = "" \/ req.text = PyNone)) =>
          /\ ret.kind = "verdict"
          /\ ret.verdict.is_safe = TRUE
          /\ ret.verdict.score = 0
          /\ ret.verdict.tag = "empty_input"
          /\ calls = <<>>
    /\ (req.op = "scan_messages" /\ ret # Pending /\ req.messages = <<>>) =>
          /\ ret.kind = "verdict"
          /\ ret.verdict.is_safe = TRUE
          /\ ret.verdict.score = 0
          /\ ret.verdict.tag = "empty_messages"
          /\ calls = <<>>

C4_Witness ==
    /\ ReturnedVerdict("scan_text")
    /\ req.text = ""
    /\ req.policy.threshold = <<0>>
    /\ req.scan_type = "output"
    /\ Len(req.meta.d) = 1
    /\ ret.verdict.is_safe = TRUE
    /\ ret.verdict.tag = "empty_input"
    /\ calls = <<>>

\* C5: none of scan_text, scan_messages, scan_rag_chunks and scan_tool_call
\* ever raises to its caller, for every input (elements that are neither
\* strings nor records included) and every collaborator behaviour.
C5_NeverRaises == ret.kind # "raised"

\* C6: on a successful call the score is the result of the first finding, in
\* list order, of type "score" and name "prompt_injection"; without such a
\* finding the score is 0.0 and is_safe = (0.0 < threshold); raw_analysis is
\* the collaborator's findings list unchanged.
C6_FirstInjectionScore ==
    (/\ TextAnswered
     /\ script[1].success = <<TRUE>>
     /\ \A i \in 1..Len(AnsweredFindings) :
           (IsHit(AnsweredFindings, i) /\ \A j \in 1..(i - 1) : ~IsHit(AnsweredFindings, j))
              => AnsweredFindings[i].result # <<>>) =>
        /\ ret.verdict.raw_analysis = AnsweredFindings
        /\ \/ /\ \A i \in 1..Len(AnsweredFindings) : ~IsHit(AnsweredFindings, i)
              /\ ret.verdict.score = 0
              /\ ret.verdict.is_safe = (0 < AskedThreshold)
           \/ \E i \in 1..Len(AnsweredFindings) :
                 /\ IsHit(AnsweredFindings, i)
                 /\ \A j \in 1..(i - 1) : ~IsHit(AnsweredFindings, j)
                 /\ ret.verdict.score = AnsweredFindings[i].result[1]

C6_Witness ==
    /\ TextAnswered
    /\ script[1].success = <<TRUE>>
    /\ AnsweredFindings = <<ScoreFinding(20), ScoreFinding(90)>>
    /\ ret.verdict.score = 20
    /\ ret.verdict.raw_analysis = AnsweredFindings

\* scan_rag_chunks has returned a result.
RagReturned == req.op = "scan_rag_chunks" /\ ret.kind = "rag"

\* max_chunks_to_scan as the caller gave it, all the chunks when not given.
AskedLimit ==
    IF req.policy.max_chunks_to_scan = <<>> THEN Len(req.chunks)
    ELSE req.policy.max_chunks_to_scan[1]

\* min(len(chunks), max_chunks_to_scan)
Retained == IF Len(req.chunks) <= AskedLimit THEN Len(req.chunks) ELSE AskedLimit

\* The text of the i-th chunk (from 1) as the caller would read it.
AskedChunkText(i) ==
    LET c == req.chunks[i]
    IN IF c.kind = "str" THEN c.s
       ELSE IF HasKey(c.d, "text") /\ Lookup(c.d, "text") # "" THEN Lookup(c.d, "text")
       ELSE IF HasKey(c.d, "content") /\ Lookup(c.d, "content") # ""
            THEN Lookup(c.d, "content")
       ELSE StrDict(c.d)

\* The collaborator call that answers the i-th chunk: empty texts make none.
CallOfChunk(i) == Cardinality({j \in 1..i : AskedChunkText(j) # ""})

\* What the collaborator's answer r is worth against the asked threshold.
AnswerScore(r) ==
    IF r.raises \/ r.success # <<TRUE>> THEN 100 ELSE r.analysis[1][1].result[1]

\* The score and the flag the i-th chunk deserves on its own.
ChunkScore(i) == IF AskedChunkText(i) = "" THEN 0 ELSE AnswerScore(script[CallOfChunk(i)])

ChunkFlagged(i) == AskedChunkText(i) # "" /\ ~(ChunkScore(i) < AskedThreshold)

\* The entries of safe_chunks and flagged_chunks that carry index i.
SafeAt(i) == {j \in 1..Len(ret.result.safe_chunks) : ret.result.safe_chunks[j].index = i}

FlaggedAt(i) ==
    {j \in 1..Len(ret.result.flagged_chunks) : ret.result.flagged_chunks[j].index = i}

\* C7: for a non-empty chunk collection, is_safe = (the query's verdict is
\* safe) AND (flagged_chunks is empty); one flagged chunk makes the result
\* unsafe though the query is safe, and the unflagged chunks are still
\* returned in safe_chunks.
C7_RagSafeIffQuerySafeAndNoFlagged ==
    (RagReturned /\ Len(req.chunks) > 0) =>
        LET r == ret.result
        IN /\ r.is_safe = (r.verdict_per_chunk[1].is_safe /\ Len(r.flagged_chunks) = 0)
           /\ \A i \in 1..Retained : ~ChunkFlagged(i) => SafeAt(i - 1) # {}
           /\ (\E i \in 1..Retained : ChunkFlagged(i)) => ~r.is_safe

C7_Witness ==
    /\ RagReturned
    /\ Len(req.chunks) = 2
    /\ ret.result.verdict_per_chunk[1].is_safe
    /\ Len(ret.result.flagged_chunks) = 1
    /\ Len(ret.result.safe_chunks) = 1
    /\ ~ret.result.is_safe

\* C8: len(safe_chunks) + len(flagged_chunks) = min(len(chunks),
\* max_chunks_to_scan); every retained chunk is classified exactly once, on
\* its own answer alone (a flagged, failed or raising scan of another chunk
\* changes nothing), and chunks beyond the limit are in neither list.
C8_RagPartition ==
    RagReturned =>
        LET r == ret.result
        IN /\ Len(r.safe_chunks) + Len(r.flagged_chunks) = Retained
           /\ \A i \in 1..Retained :
                 /\ Cardinality(SafeAt(i - 1)) + Cardinality(FlaggedAt(i - 1)) = 1
                 /\ ChunkFlagged(i) <=> FlaggedAt(i - 1) # {}
                 /\ \A j \in SafeAt(i - 1) : r.safe_chunks[j].score = ChunkScore(i)
                 /\ \A j \in FlaggedAt(i - 1) : r.flagged_chunks[j].score = ChunkScore(i)
           /\ \A i \in (Retained + 1)..Len(req.chunks) :
                 SafeAt(i - 1) = {} /\ FlaggedAt(i - 1) = {}

C8_Witness ==
    /\ RagReturned
    /\ Len(req.chunks) = 2
    /\ req.policy.max_chunks_to_scan = <<>>
    /\ Len(calls) = 3
    /\ script[1].raises
    /\ script[2] = Ok(20)
    /\ FlaggedAt(0) # {}
    /\ SafeAt(1) # {}

\* C9 as stated: for every call, verdict_per_chunk has
\* min(len(chunks), max_chunks_to_scan) + 1 entries.
C9_VerdictCountAllInputs ==
    RagReturned => Len(ret.result.verdict_per_chunk) = Retained + 1

\* C9 amended: for every call with a non-empty chunk collection,
\* verdict_per_chunk has min(len(chunks), max_chunks_to_scan) + 1 entries, the
\* query's verdict first, then one verdict per scanned chunk in chunk order.
C9_VerdictPerChunk ==
    (RagReturned /\ Len(req.chunks) > 0) =>
        LET v == ret.result.verdict_per_chunk
        IN /\ Len(v) = Retained + 1
           /\ ~HasKey(v[1].meta, "chunk_index")
           /\ req.query # "" => v[1].score = AnswerScore(script[Len(calls)])
           /\ req.query = "" => v[1].tag = "empty_input"
           /\ \A i \in 1..Retained :
                 /\ HasKey(v[i + 1].meta, "chunk_index")
                 /\ Lookup(v[i + 1].meta, "chunk_index").n = i - 1
                 /\ v[i + 1].score = ChunkScore(i)

C9_Witness ==
    /\ RagReturned
    /\ Len(req.chunks) = 2
    /\ req.policy.max_chunks_to_scan = <<1>>
    /\ req.query # ""
    /\ Len(ret.result.verdict_per_chunk) = 2
    /\ ret.result.verdict_per_chunk[1].score = 20
    /\ ret.result.verdict_per_chunk[2].score = 90

\* C10 as stated: with n > 0 chunks, scan_rag_chunks makes exactly
\* min(n, k) + 1 collaborator calls and reports total_chunks = n.
C10_CallCountAllInputs ==
    (RagReturned /\ Len(req.chunks) > 0) =>
        /\ Len(calls) = Retained + 1
        /\ ret.result.total_chunks = Len(req.chunks)

\* C10 amended: with n > 0 chunks, scan_rag_chunks scans exactly the first
\* min(n, k) chunks in their original order, makes one collaborator call for
\* each of them whose text is not empty plus one for a non-empty query (so
\* exactly min(n, k) + 1 calls when none of these texts is empty), and reports
\* total_chunks = n.
C10_RagScansPrefix ==
    (RagReturned /\ Len(req.chunks) > 0) =>
        LET r == ret.result
            asked == {i \in 1..Retained : AskedChunkText(i) # ""}
        IN /\ r.total_chunks = Len(req.chunks)
           /\ Len(calls) = Cardinality(asked) + (IF req.query = "" THEN 0 ELSE 1)
           /\ (req.query # "" /\ Cardinality(asked) = Retained) => Len(calls) = Retained + 1
           /\ \A i \in asked : calls[CallOfChunk(i)].text = AskedChunkText(i)
           /\ \A i \in 1..Retained :
                 \A j \in SafeAt(i - 1) : r.safe_chunks[j].original = req.chunks[i]
           /\ \A i \in 1..Retained :
                 \A j \in FlaggedAt(i - 1) : r.flagged_chunks[j].original = req.chunks[i]

C10_Witness ==
    /\ RagReturned
    /\ Len(req.chunks) = 2
    /\ req.policy.max_chunks_to_scan = <<1>>
    /\ req.query # ""
    /\ req.chunks[1] = Chunk("str", "doc", <<>>)
    /\ Len(calls) = 2
    /\ calls[1].text = "doc"
    /\ ret.result.total_chunks = 2

\* C11: for an empty chunk collection scan_rag_chunks returns is_safe=True,
\* total_chunks=0 and empty safe_chunks and flagged_chunks, and makes no
\* collaborator call (the query is not scanned), whatever the query, the
\* policy and the meta.
C11_EmptyChunksNoCall ==
    (req.op = "scan_rag_chunks" /\ ret # Pending /\ Len(req.chunks) = 0) =>
        /\ ret.kind = "rag"
        /\ ret.result.is_safe = TRUE
        /\ ret.result.total_chunks = 0
        /\ ret.result.safe_chunks = <<>>
        /\ ret.result.flagged_chunks = <<>>
        /\ calls = <<>>

C11_Witness ==
    /\ RagReturned
    /\ Len(req.chunks) = 0
    /\ req.query = "what?"
    /\ req.policy.max_chunks_to_scan = <<1>>
    /\ ~req.meta.isNone
    /\ script[1] = Ok(90)
    /\ calls = <<>>
    /\ ret.result.is_safe

\* scan_tool_call has returned its result.
ToolReturned == req.op = "scan_tool_call" /\ ret.kind = "tool"

\* The position among the calls of the user-message probe's call, 0 when the
\* user message is empty and the probe asks nothing.
UserProbeCall == IF req.user_message = "" THEN 0 ELSE 1

\* The tool-context text is never empty: its probe always calls, last.
ToolProbeCall == UserProbeCall + 1

UserProbeRaised == UserProbeCall > 0 /\ script[UserProbeCall].raises

ToolProbeRaised == script[ToolProbeCall].raises

\* C12: when the collaborator raises during the user-message probe, the
\* tool-context probe or both, scan_tool_call returns is_safe=False,
\* user_intent_safe=False, tool_args_safe=False, combined_score=1.0 and the
\* recommendation "block", whatever the other probe returned.
C12_RaiseBlocksToolCall ==
    (ToolReturned /\ (UserProbeRaised \/ ToolProbeRaised)) =>
        /\ ret.result.is_safe = FALSE
        /\ ret.result.user_intent_safe = FALSE
        /\ ret.result.tool_args_safe = FALSE
        /\ ret.result.combined_score = 100
        /\ ret.result.recommendation = "block"

\* C13: the recommendation is one of "proceed", "review" and "block" and is
\* decided by is_safe and combined_score alone: "proceed" whenever is_safe;
\* otherwise "block" for a combined score of 0.85 or more, "review" from 0.50
\* up to 0.85, and "proceed" below 0.50.
C13_RecommendationTable ==
    ToolReturned =>
        LET r == ret.result
        IN /\ r.recommendation \in {"proceed", "review", "block"}
           /\ r.is_safe => r.recommendation = "proceed"
           /\ (~r.is_safe /\ r.combined_score >= 85) => r.recommendation = "block"
           /\ (~r.is_safe /\ r.combined_score >= 50 /\ r.combined_score < 85) =>
                  r.recommendation = "review"
           /\ (~r.is_safe /\ r.combined_score < 50) => r.recommendation = "proceed"

C13_Witness ==
    /\ ToolReturned
    /\ req.policy.threshold = <<20>>
    /\ script[1] = Ok(20)
    /\ script[2] = Ok(40)
    /\ Len(calls) = 2
    /\ ~ret.result.is_safe
    /\ ret.result.combined_score = 30
    /\ ret.result.recommendation = "proceed"

\* The scores of the two probes, as their verdicts carry them.
UserScore == ret.result.user_message_verdict.score

ToolScore == ret.result.tool_context_verdict.score

C15_CombinedIsExactMean ==
    ToolReturned =>
        /\ 2 * ret.result.combined_score = UserScore + ToolScore
        /\ (UserScore = 70 /\ ToolScore = 80) =>
              /\ ret.result.combined_score = 75
              /\ ret.result.is_safe = FALSE
              /\ ret.result.recommendation = "review"

\* The probe whose call is the i-th got a successful answer.
ProbeAnswered(i) == i > 0 /\ ~script[i].raises /\ script[i].success = <<TRUE>>

\* C16: user_intent_safe is the user-message verdict's is_safe,
\* tool_args_safe is the tool-context verdict's is_safe, is_safe is their
\* conjunction, and both probes are judged against the caller's threshold
\* (0.65 when the policy gives none).
C16_ProbeFlags ==
    ToolReturned =>
        LET r == ret.result
        IN /\ r.user_intent_safe = r.user_message_verdict.is_safe
           /\ r.tool_args_safe = r.tool_context_verdict.is_safe
           /\ r.is_safe = (r.user_intent_safe /\ r.tool_args_safe)
           /\ ProbeAnswered(UserProbeCall) =>
                  r.user_message_verdict.is_safe = (UserScore < AskedThreshold)
           /\ ProbeAnswered(ToolProbeCall) =>
                  r.tool_context_verdict.is_safe = (ToolScore < AskedThreshold)

C16_Witness ==
    /\ ToolReturned
    /\ req.policy.threshold = <<20>>
    /\ Len(calls) = 2
    /\ ProbeAnswered(1)
    /\ script[2] = Ok(20)
    /\ UserScore = 0
    /\ ret.result.user_intent_safe
    /\ ~ret.result.tool_args_safe
    /\ ~ret.result.is_safe

\* The line the claim gives for one turn.
TurnLine(m) ==
    LET role == IF m.role = <<>> THEN "unknown" ELSE m.role[1]
        content == IF m.content = <<>> THEN "" ELSE m.content[1]
    IN "[" \o role \o "]: " \o content

RECURSIVE Transcript(_)
\* The turns' lines in their order, one newline between two of them.
Transcript(ms) ==
    IF Len(ms) = 1 THEN TurnLine(ms[1])
    ELSE Transcript(SubSeq(ms, 1, Len(ms) - 1)) \o "\n" \o TurnLine(ms[Len(ms)])

\* C17: for a non-empty list of role/content records scan_messages makes
\* exactly one collaborator call, with the caller's scan_type and a single
\* text of one line per turn in the original order, each "[role]: content",
\* joined by newlines; a missing role is rendered as "unknown" and a missing
\* content as the empty string.
C17_OneCallWithTranscript ==
    (/\ req.op = "scan_messages"
     /\ ret # Pending
     /\ Len(req.messages) > 0
     /\ \A i \in 1..Len(req.messages) : req.messages[i].isdict) =>
        /\ ret.kind = "verdict"
        /\ Len(calls) = 1
        /\ calls[1].scan_type = req.scan_type
        /\ calls[1].text = Transcript(req.messages)

C17_Witness ==
    /\ ReturnedVerdict("scan_messages")
    /\ req.messages = <<Message(TRUE, Missing, Some("test")), Message(TRUE, Some("user"), Missing)>>
    /\ req.scan_type = "output"
    /\ Len(calls) = 1
    /\ calls[1].scan_type = "output"
    /\ calls[1].text = "[unknown]: test\n[user]: "

\* The text the tool-context probe sent to the collaborator.
SentToolContext == calls[ToolProbeCall].text

\* The schema is given and is not empty ("" or {}).
SchemaGiven ==
    \/ req.tool_schema.kind = "str" /\ req.tool_schema.s # ""
    \/ req.tool_schema.kind = "dict" /\ req.tool_schema.d # <<>>

\* The schema as text; the text of None is "None".
SchemaText ==
    IF req.tool_schema.kind = "str" THEN req.tool_schema.s
    ELSE IF req.tool_schema.kind = "dict" THEN StrDict(req.tool_schema.d)
    ELSE "None"

\* The second line the claim gives.
SecondLine ==
    (IF req.tool_schema.kind = "str" THEN "Description: " ELSE "Schema: ") \o SchemaText

\* C18 as stated: the tool-context text always consists of exactly three
\* newline-joined lines in fixed order: "Tool: <name>", then
\* "Description: <schema>" for a text schema or "Schema: <schema>" for a
\* structured one, then "Arguments: <args rendered as text>".
C18_AlwaysThreeLines ==
    ToolReturned =>
        SentToolContext = "Tool: " \o req.tool_name \o "\n" \o SecondLine \o "\n"
                              \o "Arguments: " \o StrDict(req.tool_args)

\* C18 amended: the tool-context text consists of these three lines when a
\* schema is given and is not empty; when the schema is absent or empty
\* (None, "" or {}) it consists of exactly two lines, "Tool: <name>" and
\* "Arguments: <args rendered as text>".
C18_ToolContextLines ==
    ToolReturned =>
        SentToolContext =
            IF SchemaGiven
            THEN "Tool: " \o req.tool_name \o "\n" \o SecondLine \o "\n"
                     \o "Arguments: " \o StrDict(req.tool_args)
            ELSE "Tool: " \o req.tool_name \o "\n"
                     \o "Arguments: " \o StrDict(req.tool_args)

C18_Witness ==
    /\ ToolReturned
    /\ req.tool_schema = Schema("str", "Search the web", <<>>)
    /\ req.tool_args = << <<"q", "x">> >>
    /\ Len(calls) = 2
    /\ calls[2].text = "Tool: search\nDescription: Search the web\nArguments: {'q': 'x'}"

\* The dict d carries every item of the caller's meta.
CarriesCallerMeta(d) ==
    \A i \in 1..Len(req.meta.d) :
        HasKey(d, req.meta.d[i][1]) /\ Lookup(d, req.meta.d[i][1]) = req.meta.d[i][2]

\* C19: scan_tool_call preserves the caller's metadata: every key of the
\* caller-supplied meta appears with its caller-supplied value in
\* user_message_verdict.meta and in tool_context_verdict.meta.
C19_MetaPreserved ==
    (ToolReturned /\ ~req.meta.isNone) =>
        /\ CarriesCallerMeta(ret.result.user_message_verdict.meta)
        /\ CarriesCallerMeta(ret.result.tool_context_verdict.meta)

\* The input is vacuous: an empty text or an empty message list.
VacuousInput ==
    \/ req.op = "scan_text" /\ Falsy(req.text)
    \/ req.op = "scan_messages" /\ Len(req.messages) = 0

\* C20 as stated: every verdict returned by scan_text or scan_messages, on
\* every path and for every threshold in [0, 1], has
\* is_safe = (score < threshold).
C20_SafeIffBelowOnEveryPath ==
    (req.op \in {"scan_text", "scan_messages"} /\ ret.kind = "verdict") =>
        ret.verdict.is_safe = (ret.verdict.score < AskedThreshold)

\* C20 amended: every verdict returned by scan_text or scan_messages has
\* is_safe = (score < threshold) on every path for every threshold in
\* (0, 1], and at threshold 0 on every path but the vacuous one, whose
\* verdict is is_safe=True with score 0.0 at every threshold.
C20_SafeIffBelowUnlessVacuousAtZero ==
    (req.op \in {"scan_text", "scan_messages"} /\ ret.kind = "verdict") =>
        IF VacuousInput /\ AskedThreshold = 0
        THEN ret.verdict.is_safe /\ ret.verdict.score = 0
        ELSE ret.verdict.is_safe = (ret.verdict.score < AskedThreshold)

C20_Witness ==
    /\ ReturnedVerdict("scan_text")
    /\ req.policy.threshold = <<100>>
    /\ script[1] = Ok(100)
    /\ Len(calls) = 1
    /\ ret.verdict.score = 100
    /\ ~ret.verdict.is_safe

\* The retained chunks whose text is not empty: those that get a call.
AskedChunks == {i \in 1..Retained : AskedChunkText(i) # ""}

ExpectedToolContext ==
    "Tool: " \o req.tool_name \o "\n"
        \o (IF SchemaGiven THEN SecondLine \o "\n" ELSE "")
        \o "Arguments: " \o StrDict(req.tool_args)

\* C22 as stated: every scan_tool_call makes exactly two collaborator calls,
\* first the user message and second the tool-context text, both with
\* scan_type "input", whatever the first call returned.
C22_AlwaysTwoCalls ==
    ToolReturned =>
        /\ Len(calls) = 2
        /\ calls[1] = [text |-> req.user_message, scan_type |-> "input"]
        /\ calls[2] = [text |-> ExpectedToolContext, scan_type |-> "input"]

\* C22 amended: for a non-empty user message scan_tool_call makes exactly
\* two collaborator calls, first the user message and second the
\* tool-context text, both with scan_type "input", whatever the first call
\* returned; for an empty user message it makes exactly one call, the
\* tool-context text with scan_type "input".
C22_ProbeCallsInOrder ==
    ToolReturned =>
        IF req.user_message = ""
        THEN calls = <<[text |-> ExpectedToolContext, scan_type |-> "input"]>>
        ELSE calls = <<[text |-> req.user_message, scan_type |-> "input"],
                       [text |-> ExpectedToolContext, scan_type |-> "input"]>>

C22_Witness ==
    /\ ToolReturned
    /\ req.user_message = "delete my files"
    /\ req.tool_schema.kind = "none"
    /\ req.tool_args = <<>>
    /\ script[1].raises
    /\ Len(calls) = 2
    /\ calls[1].text = "delete my files"
    /\ calls[2].text = "Tool: search\nArguments: {}"
    /\ calls[2].scan_type = "input"

\* The text the claim gives for the i-th chunk (from 1): a field's value
\* whenever the record has the field.
ClaimedChunkText(i) ==
    LET c == req.chunks[i]
    IN IF c.kind = "str" THEN c.s
       ELSE IF HasKey(c.d, "text") THEN Lookup(c.d, "text")
       ELSE IF HasKey(c.d, "content") THEN Lookup(c.d, "content")
       ELSE StrDict(c.d)

\* The text reported for the chunk of index i in safe_chunks or flagged_chunks.
ReportedTexts(i) ==
    {ret.result.safe_chunks[j].text : j \in SafeAt(i)}
        \cup {ret.result.flagged_chunks[j].text : j \in FlaggedAt(i)}

\* C23 as stated: the text scan_rag_chunks scans and reports for a chunk is
\* the chunk itself when it is a string and, for a record, the value of its
\* text field whenever it has one, otherwise that of its content field
\* whenever it has one, otherwise the string conversion of the record.
C23_ChunkTextByField ==
    RagReturned =>
        \A i \in 1..Retained : ReportedTexts(i - 1) = {ClaimedChunkText(i)}

\* C23 amended: for a record the text is the value of its text field when
\* that value is not empty, otherwise the value of its content field when
\* that value is not empty, otherwise the string conversion of the whole
\* record; a string chunk is its own text.
C23_ChunkTextByNonEmptyField ==
    RagReturned =>
        \A i \in 1..Retained :
            /\ ReportedTexts(i - 1) = {AskedChunkText(i)}
            /\ AskedChunkText(i) # "" => calls[CallOfChunk(i)].text = AskedChunkText(i)

C23_Witness ==
    /\ RagReturned
    /\ Len(req.chunks) = 2
    /\ req.policy.max_chunks_to_scan = <<>>
    /\ req.chunks[1] = Chunk("dict", "", << <<"text", "">>, <<"content", "body">> >>)
    /\ req.chunks[2] = Chunk("dict", "", << <<"other_field", "value">> >>)
    /\ calls[1].text = "body"
    /\ calls[2].text = "{'other_field': 'value'}"
    /\ ReportedTexts(0) = {"body"}

\* The entries of a list of chunk entries are in ascending index order.
Ascending(entries) ==
    \A j, k \in 1..Len(entries) : j < k => entries[j].index < entries[k].index

\* C24: every scanned chunk i appears in exactly one of safe_chunks and
\* flagged_chunks, in flagged_chunks iff its verdict verdict_per_chunk[i+1]
\* is unsafe, with index i, that verdict's score and the original chunk;
\* flagged entries also carry the reason "flagged"; both lists are in
\* ascending index order.
C24_PartitionEntries ==
    (RagReturned /\ Len(req.chunks) > 0) =>
        LET r == ret.result
        IN /\ Len(r.verdict_per_chunk) = Retained + 1
           /\ \A i \in 1..Retained :
                 LET v == r.verdict_per_chunk[i + 1]
                 IN /\ Cardinality(SafeAt(i - 1)) + Cardinality(FlaggedAt(i - 1)) = 1
                    /\ (FlaggedAt(i - 1) # {}) <=> ~v.is_safe
                    /\ \A j \in SafeAt(i - 1) :
                          /\ r.safe_chunks[j].score = v.score
                          /\ r.safe_chunks[j].original = req.chunks[i]
                          /\ "reason" \notin DOMAIN r.safe_chunks[j]
                    /\ \A j \in FlaggedAt(i - 1) :
                          /\ r.flagged_chunks[j].score = v.score
                          /\ r.flagged_chunks[j].original = req.chunks[i]
                          /\ r.flagged_chunks[j].reason = "flagged"
           /\ Ascending(r.safe_chunks)
           /\ Ascending(r.flagged_chunks)

C24_Witness ==
    /\ RagReturned
    /\ Len(req.chunks) = 2
    /\ req.policy.max_chunks_to_scan = <<>>
    /\ Len(calls) = 3
    /\ script[1] = Ok(90)
    /\ script[2] = Failed
    /\ Len(ret.result.flagged_chunks) = 2
    /\ ret.result.flagged_chunks[1].index = 0
    /\ ret.result.flagged_chunks[2].index = 1
    /\ ret.result.flagged_chunks[2].score = 100
    /\ ret.result.flagged_chunks[1].reason = "flagged"

\* C25: for every non-empty list of role/content records, scan_type, policy,
\* meta and collaborator behaviour (success, failure, raise), scan_messages
\* returns exactly the verdict scan_text returns on the flattened transcript
\* with the same scan_type, policy and meta, and makes the same call.
C25_MessagesAsTextOfTranscript ==
    (/\ req.op = "scan_messages"
     /\ ret # Pending
     /\ Len(req.messages) > 0
     /\ \A i \in 1..Len(req.messages) : req.messages[i].isdict) =>
        LET t == scan_text(Transcript(req.messages), req.scan_type, req.policy, req.meta, <<>>)
        IN /\ ret.kind = "verdict"
           /\ ret.verdict = t.verdict
           /\ calls = t.log

C25_Witness ==
    /\ ReturnedVerdict("scan_messages")
    /\ Len(req.messages) = 2
    /\ req.messages[1] = Message(TRUE, Some("system"), Some("be brief"))
    /\ script[1].success = <<TRUE>>
    /\ script[1].tag = <<>>
    /\ req.policy.threshold = <<20>>
    /\ Len(calls) = 1
    /\ ret.verdict.score = 0
    /\ ret.verdict.tag = ""
    /\ ret.verdict.is_safe

\* C26: scan_tool_call returns is_safe=False together with the
\* recommendation "proceed" exactly when at least one probe verdict is unsafe
\* and the rounded combined score is below 0.50; such a result is reachable
\* under the default threshold 0.65.
C26_UnsafeProceed ==
    ToolReturned =>
        LET r == ret.result
        IN (~r.is_safe /\ r.recommendation = "proceed") <=>
              /\ ~r.user_message_verdict.is_safe \/ ~r.tool_context_verdict.is_safe
              /\ r.combined_score < 50

C26_Witness ==
    /\ ToolReturned
    /\ req.policy.threshold = <<>>
    /\ script[1] = Ok(65)
    /\ script[2] = Ok(20)
    /\ UserScore = 65
    /\ ToolScore = 20
    /\ ret.result.combined_score = 40
    /\ ~ret.result.is_safe
    /\ ret.result.recommendation = "proceed"

\* The probe whose call is the i-th ended fail-closed: the collaborator
\* raised or reported failure.
ProbeFailedClosed(i) == i > 0 /\ (script[i].raises \/ script[i].success = <<FALSE>>)

\* C27: when either probe ends fail-closed (failure or raise, score 1.0) the
\* recommendation is never "proceed": it is "review" or "block", for every
\* score of the other probe (an empty user message scored 0.0 included) and
\* every threshold.
C27_FailClosedNeverProceeds ==
    (ToolReturned /\ (ProbeFailedClosed(UserProbeCall) \/ ProbeFailedClosed(ToolProbeCall))) =>
        ret.result.recommendation \in {"review", "block"}

C27_Witness ==
    /\ ToolReturned
    /\ req.user_message = ""
    /\ req.policy.threshold = <<100>>
    /\ script[1] = Failed
    /\ UserScore = 0
    /\ ToolScore = 100
    /\ ret.result.combined_score = 50
    /\ ret.result.recommendation = "review"

\* C28 as stated: scan_rag_chunks returns is_safe=True only when the query
\* was scanned and its verdict is safe, never for a query the collaborator
\* would score at or above the threshold, fail on or raise on, for every
\* chunk collection, the empty one included.
C28_SafeImpliesQueryScanned ==
    (RagReturned /\ ret.result.is_safe /\ req.query # "") =>
        /\ Len(calls) > 0
        /\ calls[Len(calls)].text = req.query
        /\ AnswerScore(script[Len(calls)]) < AskedThreshold

\* C28 amended: for a non-empty chunk collection, is_safe=True implies that
\* the query was scanned and its verdict is safe (a non-empty query got a
\* collaborator call that succeeded with a score below the threshold); for
\* the empty collection is_safe=True is returned without scanning the query.
C28_SafeImpliesQueryScannedIfChunks ==
    (RagReturned /\ ret.result.is_safe) =>
        IF Len(req.chunks) = 0 THEN calls = <<>>
        ELSE /\ ret.result.verdict_per_chunk[1].is_safe
             /\ req.query # "" =>
                   /\ Len(calls) > 0
                   /\ calls[Len(calls)].text = req.query
                   /\ AnswerScore(script[Len(calls)]) < AskedThreshold

C28_Witness ==
    /\ RagReturned
    /\ req.query = "what?"
    /\ req.chunks = <<Chunk("str", "doc", <<>>)>>
    /\ script = <<Ok(20), Ok(20)>>
    /\ Len(calls) = 2
    /\ calls[2].text = "what?"
    /\ ret.result.is_safe

\* The threshold is_prompt_injection was given, 0.65 by default.
InjectionThreshold == IF req.threshold = <<>> THEN 65 ELSE req.threshold[1]

\* C29: for the same analysis result and the same threshold,
\* is_prompt_injection returns True exactly when scan_text's verdict for
\* that result is unsafe, for every score (score = threshold included) and
\* for failed analyses.
C29_DecisionPathsAgree ==
    (req.op = "is_prompt_injection" /\ ret.kind = "bool") =>
        ret.value = ~scan_text("hello", "input", Policy(Some(InjectionThreshold), Missing),
                               NoMeta, <<>>).verdict.is_safe

\* proceed < review < block
Severity(r) == IF r = "proceed" THEN 0 ELSE IF r = "review" THEN 1 ELSE 2

\* The scores a probe is given when the other score is raised.
ScoreGrid == ToolScores \cup {0, 100}

\* The recommendation for probe scores s1 and s2 under the caller's threshold.
RecommendationAt(s1, s2) ==
    recommendation(s1 < AskedThreshold /\ s2 < AskedThreshold, combined_score(s1, s2))

\* C30: the recommendation is monotone in the probe scores: for a fixed
\* threshold, raising either probe's score with the other unchanged never
\* gives a less severe recommendation, under proceed < review < block.
C30_RecommendationMonotone ==
    ToolReturned =>
        /\ ret.result.recommendation = RecommendationAt(UserScore, ToolScore)
        /\ \A s \in ScoreGrid :
              /\ s >= UserScore =>
                    Severity(RecommendationAt(s, ToolScore)) >= Severity(ret.result.recommendation)
              /\ s >= ToolScore =>
                    Severity(RecommendationAt(UserScore, s)) >= Severity(ret.result.recommendation)

C30_Witness ==
    /\ ToolReturned
    /\ req.policy.threshold = <<>>
    /\ UserScore = 60
    /\ ToolScore = 20
    /\ ret.result.recommendation = "proceed"
    /\ RecommendationAt(65, 20) = "proceed"
    /\ RecommendationAt(90, 20) = "review"
    /\ RecommendationAt(60, 100) = "review"

====
